---- MODULE Spec2Model ----
(***************************************************************************)
(* A model of the Flask service of app.py and of the pytest fixture of     *)
(* test_app.py that drives it.                                             *)
(*                                                                         *)
(* Strings whose contents matter (the greeting, the version, the           *)
(* environment name, the secret) are sequences of one-character strings,   *)
(* so that formatting and substring search are computed, not assumed.      *)
(* Enumerated literals (the health status, check names, routes) are plain  *)
(* strings: the code only compares them for equality.                      *)
(*                                                                         *)
(* app.py ships the two sub-check blocks of health_check (lines 58-91) as  *)
(* commented examples.  `wired` says which of them are enabled.  Spec is   *)
(* the service as shipped (wired = {}); SpecChecks is the same service     *)
(* with any subset of the example blocks enabled as written.               *)
(***************************************************************************)
EXTENDS Integers, Sequences, FiniteSets

VARIABLES
    environ,      \* os.environ: FLASK_ENV, APP_VERSION, SECRET_KEY
    loaded,       \* the app module has been imported
    FLASK_ENV,    \* app.py module globals, set once by the import
    DEBUG_MODE,
    SECRET_KEY,
    APP_VERSION,
    log_level,    \* level given to logging.basicConfig
    config,       \* app.config
    fixture,      \* the client fixture of test_app.py: its locals
    rv,           \* the response the last request returned
    ran,          \* the sub-check calls of the last /health request, in call order
    now,          \* the server clock read by datetime.now()
    wired,        \* the example sub-check blocks that are enabled
    boot          \* os.environ as it was when the app module was imported

globals == <<FLASK_ENV, DEBUG_MODE, SECRET_KEY, APP_VERSION, log_level>>
vars == <<environ, loaded, FLASK_ENV, DEBUG_MODE, SECRET_KEY, APP_VERSION,
          log_level, config, fixture, rv, ran, now, wired, boot>>

-----------------------------------------------------------------------------
(* Bounds *)

MaxClock == 2

-----------------------------------------------------------------------------
(* String literals of the source *)

HelloPrefix == <<"H", "e", "l", "l", "o", ",", " ", "F", "l", "a", "s", "k", " ", "i", "n", " ", "D", "o", "c", "k", "e", "r", "!", " ", "T", "h", "i", "s", " ", "i", "s", " ", "v", "e", "r", "s", "i", "o", "n", ":", " ">>
DefaultVersion == <<"0", ".", "0", ".", "1", "-", "d", "e", "v">>
DefaultEnv == <<"d", "e", "v", "e", "l", "o", "p", "m", "e", "n", "t">>
DevSecret == <<"a", "_", "s", "u", "p", "e", "r", "_", "s", "e", "c", "r", "e", "t", "_", "k", "e", "y", "_", "f", "o", "r", "_", "d", "e", "v", "_", "o", "n", "l", "y">>
OkBody == <<"O", "K">>
TestVersion == <<"t", "e", "s", "t", "-", "v", "e", "r", "s", "i", "o", "n", "-", "1", ".", "0", ".", "0">>
TestingEnv == <<"t", "e", "s", "t", "i", "n", "g">>
TestSecret == <<"t", "e", "s", "t", "_", "s", "e", "c", "r", "e", "t", "_", "k", "e", "y">>

(* Values the deployment may put in the environment *)
ProductionEnv == <<"p", "r", "o", "d", "u", "c", "t", "i", "o", "n">>
WordVersion == <<"v", "e", "r", "s", "i", "o", "n">>
ShaVersion == <<"a", "1", "b", "2">>
ProdSecret == <<"k", "3", "y">>

-----------------------------------------------------------------------------
(* os.environ: a variable is unset, or set to a string *)

Unset == [set |-> FALSE, val |-> <<>>]
Some(v) == [set |-> TRUE, val |-> v]

EnvNames == {DefaultEnv, TestingEnv, ProductionEnv}
Versions == {DefaultVersion, TestVersion, WordVersion, ShaVersion, <<>>}
Secrets == {ProdSecret}

Environments ==
    [FLASK_ENV   : {Unset} \cup {Some(v) : v \in EnvNames},
     APP_VERSION : {Unset} \cup {Some(v) : v \in Versions},
     SECRET_KEY  : {Unset} \cup {Some(v) : v \in Secrets}]

(* os.environ.get with the environment ignored *)
os_environ_get_default_only(env, key, default) == default

(* os.environ.get(key, default) *)
os_environ_get(env, key, default) ==
    IF env[key].set THEN env[key].val ELSE default

(* os.environ.get(key): None when unset *)
os_environ_get_or_none(env, key) == env[key]

-----------------------------------------------------------------------------
(* Pure parts of the handlers *)

(* The greeting with the version hard-coded *)
hello_format_hardcoded(version) == HelloPrefix \o DefaultVersion

(* 'Hello, Flask in Docker! This is version: {}'.format(version) *)
hello_format(version) == HelloPrefix \o version

(* datetime.now().isoformat(): the clock reading, rendered *)
isoformat(t) == <<"iso", t>>

(* The dict literal with the wrong initial status *)
new_health_status_down(t, version, env) ==
    [status              |-> "DOWN",
     timestamp           |-> isoformat(t),
     application_version |-> version,
     environment         |-> env,
     checks              |-> <<>>]

(* The dict literal with a checks list shared between requests *)
new_health_status_shared_list(t, version, env) ==
    [status              |-> "UP",
     timestamp           |-> isoformat(t),
     application_version |-> version,
     environment         |-> env,
     checks              |-> rv.json.checks]

(* The dict literal health_check starts from *)
new_health_status(t, version, env) ==
    [status              |-> "UP",
     timestamp           |-> isoformat(t),
     application_version |-> version,
     environment         |-> env,
     checks              |-> <<>>]

(* The status-code selection with DEGRADED answered as unavailable *)
status_code_for_degraded_503(status) ==
    IF status = "DOWN" THEN 503
    ELSE IF status = "DEGRADED" THEN 503
    ELSE 200

(* The status-code selection at the end of health_check *)
status_code_for(status) ==
    IF status = "DOWN" THEN 503
    ELSE IF status = "DEGRADED" THEN 200
    ELSE 200

(* What a sub-check function may meet: no exception, or one of these *)
NoException == "none"
Exceptions == {"timeout", "refused"}
Outcomes == {NoException} \cup Exceptions

(* check_database_connection(): (ok, message) *)
check_database_connection(exc) ==
    IF exc = NoException
    THEN [ok |-> TRUE, message |-> <<"Database connection successful">>]
    ELSE [ok |-> FALSE, message |-> <<"Database connection failed: ", exc>>]

(* check_external_api(): (ok, message) *)
check_external_api(exc) ==
    IF exc = NoException
    THEN [ok |-> TRUE, message |-> <<"External API reachable">>]
    ELSE [ok |-> FALSE, message |-> <<"External API unreachable: ", exc>>]

(* {"name": ..., "status": "OK" if ok else "DOWN", "message": ...} *)
check_entry(name, res) ==
    [name |-> name, status |-> IF res.ok THEN "OK" ELSE "DOWN", message |-> res.message]

(* The entry inserted at the front instead of appended *)
checks_insert_front(checks, entry) == <<entry>> \o checks

(* health_status["checks"].append(entry) *)
checks_append(checks, entry) == Append(checks, entry)

(* The database block with the status set whatever the result *)
database_block_always_degraded(hs, res) ==
    LET hs1 == [hs EXCEPT !.checks = checks_append(@, check_entry("database", res))]
    IN  [hs1 EXCEPT !.status = "DEGRADED"]

(* The database block: append the entry, then set the status *)
database_block(hs, res) ==
    LET hs1 == [hs EXCEPT !.checks = checks_append(@, check_entry("database", res))]
    IN  IF ~res.ok THEN [hs1 EXCEPT !.status = "DEGRADED"] ELSE hs1

(* The external-API block: append the entry, then set the status *)
external_api_block(hs, res) ==
    LET hs1 == [hs EXCEPT !.checks = checks_append(@, check_entry("external_api", res))]
    IN  IF ~res.ok /\ hs1.status = "UP" THEN [hs1 EXCEPT !.status = "DEGRADED"] ELSE hs1

CheckNames == {"database", "external_api"}

(* The body of health_check between the dict literal and the status code *)
run_checks(hs, w, exc) ==
    LET hs1 == IF "database" \in w
               THEN database_block(hs, check_database_connection(exc["database"]))
               ELSE hs
    IN  IF "external_api" \in w
        THEN external_api_block(hs1, check_external_api(exc["external_api"]))
        ELSE hs1

(* The calls run_checks makes, in the order it makes them *)
calls_made(w, exc) ==
    (IF "database" \in w
     THEN <<[name |-> "database", res |-> check_database_connection(exc["database"])]>>
     ELSE <<>>)
    \o
    (IF "external_api" \in w
     THEN <<[name |-> "external_api", res |-> check_external_api(exc["external_api"])]>>
     ELSE <<>>)

-----------------------------------------------------------------------------
(* Responses *)

NoJson == [status |-> "", timestamp |-> <<>>, application_version |-> <<>>,
           environment |-> <<>>, checks |-> <<>>]
NoResponse == [route |-> "", status_code |-> 0, data |-> <<>>, json |-> NoJson]

text_response(route, body, code) ==
    [route |-> route, status_code |-> code, data |-> body, json |-> NoJson]

(* jsonify(health_status), status_code: the list keeps its order *)
json_response(route, obj, code) ==
    [route |-> route, status_code |-> code, data |-> <<>>, json |-> obj]

-----------------------------------------------------------------------------
(* State before the app module is imported *)

NoFixture == [active |-> FALSE, original_flask_env |-> Unset,
              original_app_version |-> Unset]

InitCommon ==
    /\ environ \in Environments
    /\ loaded = FALSE
    /\ FLASK_ENV = <<>>
    /\ DEBUG_MODE = FALSE
    /\ SECRET_KEY = <<>>
    /\ APP_VERSION = <<>>
    /\ log_level = ""
    /\ config = [SECRET_KEY |-> <<>>, ENV |-> <<>>, DEBUG |-> FALSE, TESTING |-> FALSE]
    /\ fixture = NoFixture
    /\ rv = NoResponse
    /\ ran = <<>>
    /\ now = 0
    /\ boot = environ

Init == InitCommon /\ wired = {}

InitChecks == InitCommon /\ wired \in SUBSET CheckNames

-----------------------------------------------------------------------------
(* Actions *)

(* Import of app.py: the module-level statements *)
import_app ==
    /\ ~loaded
    /\ loaded' = TRUE
    /\ LET env == os_environ_get(environ, "FLASK_ENV", DefaultEnv)
           debug == (env = DefaultEnv)
           secret == os_environ_get(environ, "SECRET_KEY", DevSecret)
       IN  /\ FLASK_ENV' = env
           /\ DEBUG_MODE' = debug
           /\ SECRET_KEY' = secret
           /\ APP_VERSION' = os_environ_get(environ, "APP_VERSION", DefaultVersion)
           /\ log_level' = IF ~debug THEN "INFO" ELSE "DEBUG"
           /\ config' = [SECRET_KEY |-> secret, ENV |-> env, DEBUG |-> debug,
                         TESTING |-> FALSE]
    /\ boot' = environ
    /\ UNCHANGED <<environ, fixture, rv, ran, now, wired>>

(* GET / *)
hello_world ==
    /\ loaded
    /\ rv' = text_response("/", hello_format(APP_VERSION), 200)
    /\ ran' = <<>>
    /\ UNCHANGED <<environ, loaded, globals, config, fixture, now, wired, boot>>

(* GET /health *)
health_check ==
    /\ loaded
    /\ \E exc \in [CheckNames -> Outcomes] :
         LET hs == run_checks(new_health_status(now, APP_VERSION, FLASK_ENV), wired, exc)
         IN  /\ rv' = json_response("/health", hs, status_code_for(hs.status))
             /\ ran' = calls_made(wired, exc)
    /\ UNCHANGED <<environ, loaded, globals, config, fixture, now, wired, boot>>

(* GET /status answering with the readiness of the sub-checks *)
status_follows_health ==
    /\ loaded
    /\ rv' = text_response("/status", OkBody, IF wired = {} THEN 200 ELSE 503)
    /\ ran' = <<>>
    /\ UNCHANGED <<environ, loaded, globals, config, fixture, now, wired, boot>>

(* GET /status *)
status ==
    /\ loaded
    /\ rv' = text_response("/status", OkBody, 200)
    /\ ran' = <<>>
    /\ UNCHANGED <<environ, loaded, globals, config, fixture, now, wired, boot>>

(* The client fixture up to its yield *)
client_setup ==
    /\ loaded
    /\ ~fixture.active
    /\ fixture' = [active |-> TRUE,
                   original_flask_env |-> os_environ_get_or_none(environ, "FLASK_ENV"),
                   original_app_version |-> os_environ_get_or_none(environ, "APP_VERSION")]
    /\ environ' = [environ EXCEPT !.FLASK_ENV = Some(TestingEnv),
                                  !.APP_VERSION = Some(TestVersion)]
    /\ config' = [config EXCEPT !.TESTING = TRUE, !.SECRET_KEY = TestSecret,
                                !.DEBUG = FALSE]
    /\ rv' = NoResponse
    /\ ran' = <<>>
    /\ UNCHANGED <<loaded, globals, now, wired, boot>>

(* The client fixture after its yield *)
client_teardown ==
    /\ fixture.active
    /\ environ' = [environ EXCEPT !.FLASK_ENV = fixture.original_flask_env,
                                  !.APP_VERSION = fixture.original_app_version]
    /\ fixture' = NoFixture
    /\ rv' = NoResponse
    /\ ran' = <<>>
    /\ UNCHANGED <<loaded, globals, config, now, wired, boot>>

(* The server clock advances *)
tick ==
    /\ now < MaxClock
    /\ now' = now + 1
    /\ UNCHANGED <<environ, loaded, globals, config, fixture, rv, ran, wired, boot>>

Next ==
    \/ import_app
    \/ hello_world
    \/ health_check
    \/ status
    \/ client_setup
    \/ client_teardown
    \/ tick

Spec == Init /\ [][Next]_vars

SpecChecks == InitChecks /\ [][Next]_vars

-----------------------------------------------------------------------------
(* Helpers of the properties *)

(* The number of positions of s at which sub occurs *)
Occurrences(sub, s) ==
    Cardinality({i \in 1..(Len(s) - Len(sub) + 1) : SubSeq(s, i, i + Len(sub) - 1) = sub})

(* The configuration the environment at import time prescribes *)
BootVersion == IF boot.APP_VERSION.set THEN boot.APP_VERSION.val ELSE DefaultVersion
BootEnv == IF boot.FLASK_ENV.set THEN boot.FLASK_ENV.val ELSE DefaultEnv
BootSecret == IF boot.SECRET_KEY.set THEN boot.SECRET_KEY.val ELSE DevSecret

HealthStatuses == {"UP", "DEGRADED", "DOWN"}

AnyFailed == \E i \in 1..Len(ran) : ~ran[i].res.ok
AllHealthy == \A i \in 1..Len(ran) : ran[i].res.ok

-----------------------------------------------------------------------------
(* C1: with no sub-check wired, every /health response is 200 with status  *)
(* UP and an empty checks list, whatever requests came before.             *)
C1_HealthUpNoChecks ==
    (wired = {} /\ rv.route = "/health") =>
        /\ rv.status_code = 200
        /\ rv.json.status = "UP"
        /\ rv.json.checks = <<>>

C1_Witness ==
    /\ wired = {}
    /\ rv.route = "/health"
    /\ now = MaxClock
    /\ fixture.active

C3_AllHealthyIsUp ==
    (rv.route = "/health" /\ AllHealthy) =>
        /\ rv.json.status = "UP"
        /\ rv.status_code = 200

C3_Witness ==
    /\ rv.route = "/health"
    /\ Len(ran) = 2
    /\ AllHealthy

(* C4: the code of a /health response depends on its status alone: 503     *)
(* exactly for DOWN, 200 for UP and DEGRADED; the status is one of the     *)
(* three and the code one of the two.                                      *)
C4_CodeFollowsStatus ==
    /\ \A s \in HealthStatuses :
           status_code_for(s) = IF s = "DOWN" THEN 503 ELSE 200
    /\ rv.route = "/health" =>
           /\ rv.json.status \in HealthStatuses
           /\ rv.status_code \in {200, 503}
           /\ rv.status_code = 503 <=> rv.json.status = "DOWN"

C4_Witness ==
    /\ rv.route = "/health"
    /\ rv.json.status = "DEGRADED"
    /\ rv.status_code = 200

C6_VersionExactlyOnce ==
    rv.route = "/" =>
        /\ rv.status_code = 200
        /\ rv.data = HelloPrefix \o APP_VERSION
        /\ Occurrences(APP_VERSION, rv.data) = 1

(* C6 as amended: GET / answers 200 with the greeting followed by the      *)
(* version; the body ends with the version, so it contains it at least     *)
(* once, and exactly once when the version occurs nowhere else in the      *)
(* body, as for 0.0.1-dev and test-version-1.0.0.                          *)
C6_GreetingEndsWithVersion ==
    rv.route = "/" =>
        /\ rv.status_code = 200
        /\ Len(rv.data) = Len(HelloPrefix) + Len(APP_VERSION)
        /\ SubSeq(rv.data, 1, Len(HelloPrefix)) = HelloPrefix
        /\ SubSeq(rv.data, Len(HelloPrefix) + 1, Len(rv.data)) = APP_VERSION
        /\ Occurrences(APP_VERSION, rv.data) >= 1
        /\ APP_VERSION \in {DefaultVersion, TestVersion} =>
               Occurrences(APP_VERSION, rv.data) = 1

C6_Witness ==
    /\ rv.route = "/"
    /\ APP_VERSION = WordVersion
    /\ Occurrences(APP_VERSION, rv.data) = 2

(* C7: every /status response is 200 with body OK, whatever the            *)
(* configuration, the earlier requests and the sub-checks wired.           *)
C7_StatusAlwaysOk ==
    rv.route = "/status" =>
        /\ rv.status_code = 200
        /\ rv.data = <<"O", "K">>

C7_Witness ==
    /\ rv.route = "/status"
    /\ wired = CheckNames
    /\ FLASK_ENV = ProductionEnv
    /\ fixture.active

(* C8: the version and environment every response reports are those the   *)
(* environment held when the app module was imported, or the defaults      *)
(* 0.0.1-dev and development where it held none.                           *)
C8_StartupEnvironmentServed ==
    /\ rv.route = "/" => Occurrences(BootVersion, rv.data) >= 1
    /\ rv.route = "/health" =>
           /\ rv.json.application_version = BootVersion
           /\ rv.json.environment = BootEnv

C8_Witness ==
    /\ rv.route = "/health"
    /\ boot.APP_VERSION = Some(TestVersion)
    /\ boot.FLASK_ENV = Some(TestingEnv)
    /\ rv.json.application_version = TestVersion
    /\ rv.json.environment = TestingEnv

(* C9: inside the client fixture, which sets FLASK_ENV and APP_VERSION     *)
(* after the import, GET / contains test-version-1.0.0 and /health reports *)
(* test-version-1.0.0 and testing, whatever the environment held at import.*)
C9_FixtureEnvironmentServed ==
    fixture.active =>
        /\ rv.route = "/" => Occurrences(TestVersion, rv.data) >= 1
        /\ rv.route = "/health" =>
               /\ rv.json.application_version = TestVersion
               /\ rv.json.environment = TestingEnv

(* C10: a request writes no configuration (os.environ, the module globals, *)
(* app.config), and its response, the timestamp apart, is the one the      *)
(* same request gets right after the import: built from the startup        *)
(* configuration and this request's sub-check results alone.               *)
AsFirstRequest ==
    /\ rv.route = "/" => rv = text_response("/", HelloPrefix \o BootVersion, 200)
    /\ rv.route = "/status" => rv = text_response("/status", <<"O", "K">>, 200)
    /\ rv.route = "/health" =>
           /\ rv.data = <<>>
           /\ rv.json.status \in HealthStatuses
           /\ rv.json.status = "UP" <=> AllHealthy
           /\ rv.status_code = (IF rv.json.status = "DOWN" THEN 503 ELSE 200)
           /\ rv.json.application_version = BootVersion
           /\ rv.json.environment = BootEnv
           /\ Len(rv.json.checks) = Cardinality(wired)
           /\ Len(rv.json.checks) = Len(ran)

====
